---------------------------- MODULE Spec2Model ----------------------------
(***************************************************************************)
(* A model of the documentation crawler of FinMCP                          *)
(* (src/crawl_tsanghi_docs.py): the index generator, the fetch             *)
(* orchestrator with its admission gate and retry loop, the per-page fetch *)
(* and its classification, the command line entry and the housekeeping     *)
(* sweep over the output directory.                                        *)
(***************************************************************************)
EXTENDS Integers, Sequences, FiniteSets, TLC

VARIABLES
    gen,        \* generate_indices: the loop counters and the list being built
    genOut,     \* the lists returned by the calls of generate_indices so far
    norm,       \* a function of the normalizer, or the building of a render
                \* request, on its own: the call in progress, its locals, its value
    args,       \* main: the parsed command line flags
    site,       \* the page the documentation site serves for each index
    mpc,        \* main: its position
    indices,    \* crawl_with_table_navigation: the work list it was handed
    task,       \* process_index: one record per index of the work list
    semaphore,  \* the free permits of asyncio.Semaphore(3)
    completed,  \* the progress counter
    results,    \* the keys of the results dict
    disk,       \* the .json files of the output directory
    faults,     \* the write faults the file system has raised so far
    sweeps,     \* the calls of cleanup_empty_files so far, one record each
    past        \* the runs that ended in this output directory, one record each

vars == <<gen, genOut, norm, args, site, mpc, indices, task, semaphore, completed,
          results, disk, faults, sweeps, past>>

genVars == <<gen, genOut>>
normVars == <<norm>>
runVars == <<args, site, mpc, indices, task, semaphore, completed, results, faults>>
dirVars == <<disk, sweeps>>

(***************************************************************************)
(* Bounds of the model.                                                    *)
(***************************************************************************)
MaxCalls == 2          \* calls of generate_indices in one behaviour
MaxWork == 5           \* length of the work list of a run
MaxRemaining == 2      \* indices a previous run left to a resumed run
MaxRenderFaults == 1   \* renders of one run that meet a transient fault
MaxWriteFaults == 1    \* writes of one run that raise
MaxSweeps == 2         \* calls of cleanup_empty_files on one directory

(***************************************************************************)
(* generate_indices                                                        *)
(***************************************************************************)
IStart == 2
IStop == 6
JStart == 1
JStop == 6
KStart == 1
KStop == 6

DigitChar == <<"0", "1", "2", "3", "4", "5", "6", "7", "8", "9">>

\* str(n) of a natural number
RECURSIVE Str(_)
Str(n) == IF n < 10 THEN DigitChar[n + 1]
          ELSE Str(n \div 10) \o DigitChar[(n % 10) + 1]

\* f"{i}-{j}-{k}": a page index is held as a string, not as a text, since no
\* operation of the crawler looks into it
Key(i, j, k) == Str(i) \o "-" \o Str(j) \o "-" \o Str(k)

\* no call of the normalizer in progress
NormIdle == [pc |-> "idle"]

GenIdle == [pc |-> "idle", i |-> 0, j |-> 0, k |-> 0, indices |-> <<>>]

\* the state on entry: indices = [] and the three range iterators at their start
GenEntry == [pc |-> "loop", i |-> IStart, j |-> JStart, k |-> KStart,
             indices |-> <<>>]

\* the inner range stops one value early
GenStepShortK(g) ==
    IF g.i >= IStop THEN [g EXCEPT !.pc = "return"]
    ELSE IF g.j >= JStop THEN [g EXCEPT !.i = g.i + 1, !.j = JStart, !.k = KStart]
    ELSE IF g.k >= KStop - 1 THEN [g EXCEPT !.j = g.j + 1, !.k = KStart]
    ELSE [g EXCEPT !.indices = Append(g.indices, Key(g.i, g.j, g.k)),
                   !.k = g.k + 1]

\* one step of the three nested for loops over range(...)
GenStep(g) ==
    IF g.i >= IStop THEN [g EXCEPT !.pc = "return"]
    ELSE IF g.j >= JStop THEN [g EXCEPT !.i = g.i + 1, !.j = JStart, !.k = KStart]
    ELSE IF g.k >= KStop THEN [g EXCEPT !.j = g.j + 1, !.k = KStart]
    ELSE [g EXCEPT !.indices = Append(g.indices, Key(g.i, g.j, g.k)),
                   !.k = g.k + 1]

RECURSIVE GenRun(_)
GenRun(g) == IF g.pc = "return" THEN g.indices ELSE GenRun(GenStep(g))

\* the value of a call of generate_indices()
generate_indices == GenRun(GenEntry)

GenCall ==
    /\ gen.pc = "idle"
    /\ Len(genOut) < MaxCalls
    /\ gen' = GenEntry
    /\ UNCHANGED <<past, genOut, runVars, dirVars, normVars>>

GenLoop ==
    /\ gen.pc = "loop"
    /\ gen' = GenStep(gen)
    /\ UNCHANGED <<past, genOut, runVars, dirVars, normVars>>

GenReturn ==
    /\ gen.pc = "return"
    /\ genOut' = Append(genOut, gen.indices)
    /\ gen' = GenIdle
    /\ UNCHANGED <<past, runVars, dirVars, normVars>>

(***************************************************************************)
(* Text and JSON values.  A text is the sequence of its characters; the    *)
(* pseudo-character "NBSP" stands for U+00A0.  A JSON value is a tagged    *)
(* record; a dict holds a function from its keys to JSON values.  An       *)
(* extracted HTML fragment is a non-empty string: a table fragment is held *)
(* as its rows, a page body as what the selectors of the normalizer find   *)
(* in it.                                                                  *)
(***************************************************************************)
Null == [t |-> "null"]
Bool(b) == [t |-> "bool", v |-> b]
Num(n) == [t |-> "num", v |-> n]
Text(s) == [t |-> "str", v |-> s]
List(items) == [t |-> "list", v |-> items]
Dict(kv) == [t |-> "dict", v |-> kv]

\* Python's truth value of a decoded JSON value
Truthy(x) ==
    CASE x.t = "null" -> FALSE
      [] x.t = "bool" -> x.v
      [] x.t = "num" -> x.v # 0
      [] x.t = "str" -> Len(x.v) > 0
      [] x.t = "list" -> Len(x.v) > 0
      [] x.t = "dict" -> DOMAIN x.v # {}
      [] x.t = "html" -> TRUE
      [] x.t = "page" -> TRUE

\* d.get(key) of a dict
Get(d, key) == IF key \in DOMAIN d.v THEN d.v[key] ELSE Null

\* s[from:] of a sequence, from counted from 1
Drop(s, from) == SubSeq(s, from, Len(s))

\* whether sequence p occurs in s at position at
OccursAt(p, s, at) ==
    /\ at + Len(p) - 1 <= Len(s)
    /\ \A n \in 1..Len(p) : s[at + n - 1] = p[n]

\* Python's "p in s" on strings
Contains(p, s) == \E at \in 1..(Len(s) + 1) : OccursAt(p, s, at)

UpperChars == <<"A", "B", "C", "D", "E", "F", "G", "H", "I", "J", "K", "L", "M",
                "N", "O", "P", "Q", "R", "S", "T", "U", "V", "W", "X", "Y", "Z">>
LowerChars == <<"a", "b", "c", "d", "e", "f", "g", "h", "i", "j", "k", "l", "m",
                "n", "o", "p", "q", "r", "s", "t", "u", "v", "w", "x", "y", "z">>

LowerChar(c) ==
    IF \E n \in 1..Len(UpperChars) : UpperChars[n] = c
    THEN LowerChars[CHOOSE n \in 1..Len(UpperChars) : UpperChars[n] = c]
    ELSE c

\* str.lower()
Lower(s) == [n \in 1..Len(s) |-> LowerChar(s[n])]

(***************************************************************************)
(* clean_text                                                              *)
(***************************************************************************)
\* the characters str.split() treats as white space
IsSpace(c) == c \in {" ", "\n", "\t", "\r", "NBSP"}

\* the character references html.unescape is modelled on
Entities == << <<<<"&", "g", "t", ";">>, ">">>,
               <<<<"&", "l", "t", ";">>, "<">>,
               <<<<"&", "a", "m", "p", ";">>, "&">>,
               <<<<"&", "n", "b", "s", "p", ";">>, "NBSP">> >>

\* html.unescape: one left-to-right pass, replaced text is not scanned again
RECURSIVE Unescape(_)
Unescape(s) ==
    IF s = <<>> THEN <<>>
    ELSE IF \E e \in 1..Len(Entities) : OccursAt(Entities[e][1], s, 1)
    THEN LET hit == CHOOSE e \in 1..Len(Entities) : OccursAt(Entities[e][1], s, 1)
         IN <<Entities[hit][2]>> \o Unescape(Drop(s, Len(Entities[hit][1]) + 1))
    ELSE <<Head(s)>> \o Unescape(Tail(s))

\* " ".join(text.split()): the words of text, one blank between two
RECURSIVE JoinSplit(_, _)
JoinSplit(s, pending) ==
    IF s = <<>> THEN <<>>
    ELSE IF IsSpace(Head(s)) THEN JoinSplit(Tail(s), pending)
    ELSE (IF pending THEN <<" ">> ELSE <<>>) \o <<Head(s)>>
         \o JoinSplit(Tail(s), Len(s) > 1 /\ IsSpace(s[2]))

clean_text(text) == IF text # <<>> THEN JoinSplit(Unescape(text), FALSE) ELSE <<>>

(***************************************************************************)
(* clean_html, clean_python_example                                        *)
(***************************************************************************)
\* the position of the first ">" of s, 0 when there is none
RECURSIVE FirstGt(_, _)
FirstGt(s, at) ==
    IF at > Len(s) THEN 0
    ELSE IF s[at] = ">" THEN at ELSE FirstGt(s, at + 1)

\* re.sub(r'<[^>]+>', with, s)
RECURSIVE SubTags(_, _)
SubTags(s, with) ==
    IF s = <<>> THEN <<>>
    ELSE IF Head(s) = "<" /\ FirstGt(s, 2) >= 3
    THEN with \o SubTags(Drop(s, FirstGt(s, 2) + 1), with)
    ELSE <<Head(s)>> \o SubTags(Tail(s), with)

clean_html(html_text) ==
    IF html_text = <<>> THEN <<>>
    ELSE JoinSplit(SubTags(html_text, <<" ">>), FALSE)

\* the text of a parsed element: its markup dropped, its references decoded
get_text(html_text) == Unescape(SubTags(html_text, <<>>))

\* str.strip()
RECURSIVE LStrip(_)
LStrip(s) == IF s # <<>> /\ IsSpace(Head(s)) THEN LStrip(Tail(s)) ELSE s
RECURSIVE RStrip(_)
RStrip(s) == IF s # <<>> /\ IsSpace(s[Len(s)])
             THEN RStrip(SubSeq(s, 1, Len(s) - 1)) ELSE s
Strip(s) == RStrip(LStrip(s))

IsWordChar(c) ==
    \/ \E n \in 1..Len(UpperChars) : c = UpperChars[n] \/ c = LowerChars[n]
    \/ \E n \in 1..Len(DigitChar) : c = DigitChar[n]
    \/ c = "_"

\* re.sub of a literal pattern, left to right, without overlap
RECURSIVE SubLiteral(_, _, _)
SubLiteral(s, pat, rep) ==
    IF s = <<>> THEN <<>>
    ELSE IF OccursAt(pat, s, 1) THEN rep \o SubLiteral(Drop(s, Len(pat) + 1), pat, rep)
    ELSE <<Head(s)>> \o SubLiteral(Tail(s), pat, rep)

ImportWord == <<"i", "m", "p", "o", "r", "t">>

\* re.sub(r'import(\w+)', r'import \1', s)
RECURSIVE SubImport(_)
RECURSIVE SubImportWord(_)
SubImport(s) ==
    IF s = <<>> THEN <<>>
    ELSE IF /\ OccursAt(ImportWord, s, 1)
            /\ Len(s) > Len(ImportWord)
            /\ IsWordChar(s[Len(ImportWord) + 1])
    THEN ImportWord \o <<" ">> \o SubImportWord(Drop(s, Len(ImportWord) + 1))
    ELSE <<Head(s)>> \o SubImport(Tail(s))

\* the rest of the matched \w+ is copied, the scan goes on behind it
SubImportWord(s) ==
    IF s # <<>> /\ IsWordChar(Head(s)) THEN <<Head(s)>> \o SubImportWord(Tail(s))
    ELSE SubImport(s)

clean_python_example(python_code) ==
    IF python_code = <<>> THEN <<>>
    ELSE LET c1 == SubImport(Strip(python_code))
             c2 == SubLiteral(c1, <<"u", "r", "l", "=", "f", "\"">>,
                              <<"u", "r", "l", " ", "=", " ", "f", "\"">>)
             c3 == SubLiteral(c2, <<"d", "a", "t", "a", "=", "r", "e", "q", "u", "e", "s", "t", "s">>,
                              <<"d", "a", "t", "a", " ", "=", " ", "r", "e", "q", "u", "e", "s", "t", "s">>)
         IN SubLiteral(c3, <<"p", "r", "i", "n", "t", "(">>, <<"p", "r", "i", "n", "t", "(">>)

(***************************************************************************)
(* extract_params_from_table, extract_params_from_table_regex              *)
(*                                                                         *)
(* A table fragment is the sequence of its <tr> rows; a row holds the      *)
(* class names of its class attribute and its <div> cells, a cell the      *)
(* class names of its class attribute and its inner HTML.                  *)
(***************************************************************************)
RowClass == "el-table__row"
CellClass == "cell"

\* the localized "required" marker, U+5FC5 U+9009
RequiredMarker == <<"U5FC5", "U9009">>

\* a class name of the site that only starts with the row class
StripedRowClass == "el-table__row--striped"

\* whether a class name of the model starts with "el-table__row"
StartsWithRowClass(name) == name \in {RowClass, StripedRowClass}

HasClass(classes, name) == \E n \in 1..Len(classes) : classes[n] = name

\* soup.select('tr.el-table__row'), row.select('div.cell')
SoupRows(table_html) == SelectSeq(table_html, LAMBDA row : HasClass(row.cls, RowClass))
SoupCells(row) == SelectSeq(row.cells, LAMBDA cell : HasClass(cell.cls, CellClass))

\* r'<tr class="el-table__row[^>]*>(.*?)</tr>': the attribute value starts with
\* the class name; r'<div class="cell">(.*?)</div>': it is the class name
RegexRows(table_html) ==
    SelectSeq(table_html, LAMBDA row : row.cls # <<>> /\ StartsWithRowClass(row.cls[1]))
RegexCells(row) == SelectSeq(row.cells, LAMBDA cell : cell.cls = <<CellClass>>)

\* the required flag is read from the type cell
ParamOfCellsRequiredFromType(texts, table_type) ==
    IF Len(texts) < 3 THEN <<>>
    ELSE IF table_type = "request" /\ Len(texts) >= 4
    THEN <<Dict([name |-> Text(texts[1]),
                 type |-> Text(texts[2]),
                 required |-> Bool(Contains(RequiredMarker, texts[2])),
                 option |-> Text(texts[3]),
                 description |-> Text(texts[4])])>>
    ELSE IF table_type = "response" /\ Len(texts) >= 3
    THEN <<Dict([name |-> Text(texts[1]),
                 type |-> Text(texts[2]),
                 description |-> Text(texts[3])])>>
    ELSE <<>>

\* the record of one row from the texts of its cells, <<>> when it gives none
ParamOfCells(texts, table_type) ==
    IF Len(texts) < 3 THEN <<>>
    ELSE IF table_type = "request" /\ Len(texts) >= 4
    THEN <<Dict([name |-> Text(texts[1]),
                 type |-> Text(texts[2]),
                 required |-> Bool(Contains(RequiredMarker, texts[3])),
                 option |-> Text(texts[3]),
                 description |-> Text(texts[4])])>>
    ELSE IF table_type = "response" /\ Len(texts) >= 3
    THEN <<Dict([name |-> Text(texts[1]),
                 type |-> Text(texts[2]),
                 description |-> Text(texts[3])])>>
    ELSE <<>>

\* the loop over the rows ends behind the first row
ParamsOfRowsFirstOnly(rowTexts, table_type) ==
    IF rowTexts = <<>> THEN <<>> ELSE ParamOfCells(Head(rowTexts), table_type)

\* params after the loop over the rows, from the cell texts of each row
RECURSIVE ParamsOfRows(_, _)
ParamsOfRows(rowTexts, table_type) ==
    IF rowTexts = <<>> THEN <<>>
    ELSE ParamOfCells(Head(rowTexts), table_type)
         \o ParamsOfRows(Tail(rowTexts), table_type)

extract_params_from_table_regex(table_html, table_type) ==
    ParamsOfRows([r \in 1..Len(RegexRows(table_html)) |->
                    LET cells == RegexCells(RegexRows(table_html)[r])
                    IN [c \in 1..Len(cells) |-> clean_html(cells[c].html)]],
                 table_type)

\* the text the structural path takes from a cell
SoupText(cell) == clean_text(get_text(cell.html))

\* the local params when the loop over the rows of the structural parse ends
StructuralParams(table_html, table_type) ==
    ParamsOfRows([r \in 1..Len(SoupRows(table_html)) |->
                    LET cells == SoupCells(SoupRows(table_html)[r])
                    IN [c \in 1..Len(cells) |-> SoupText(cells[c])]],
                 table_type)

\* the regex scanner is run whatever the structural parse gave
ExtractByRegexAlways(table_html, table_type) ==
    extract_params_from_table_regex(table_html, table_type)

extract_params_from_table(table_html, table_type) ==
    LET params == StructuralParams(table_html, table_type)
    IN IF params = <<>>
       THEN extract_params_from_table_regex(table_html, table_type)
       ELSE params

(***************************************************************************)
(* post_process_content                                                    *)
(*                                                                         *)
(* The parsed page body is held as what the selectors find in it: whether  *)
(* the extraction carries an "index=i-j-k" reference, the text of the      *)
(* element '#div{index}_1 > p' (<<>> when there is none) and the texts of  *)
(* the elements the level 3 selectors match, in the order they are tried.  *)
(***************************************************************************)
Page(indexRef, l12, l3) == [t |-> "page", indexRef |-> indexRef, l12 |-> l12, l3 |-> l3]

NoPage == Page(FALSE, <<>>, <<>>)

\* text.split('>')
RECURSIVE SplitGt(_, _)
SplitGt(s, piece) ==
    IF s = <<>> THEN <<piece>>
    ELSE IF Head(s) = ">" THEN <<piece>> \o SplitGt(Tail(s), <<>>)
    ELSE SplitGt(Tail(s), Append(piece, Head(s)))

\* levels 1 and 2 from a breadcrumb text
LevelsOf(level1_2_text) ==
    IF Contains(<<">">>, level1_2_text)
    THEN LET level_parts == SplitGt(level1_2_text, <<>>)
         IN IF Len(level_parts) >= 2
            THEN <<clean_text(level_parts[1]), clean_text(level_parts[2])>>
            ELSE << <<>>, <<>> >>
    ELSE <<level1_2_text, <<>> >>

\* the first candidate whose length lies in (3, 100), <<>> when there is none
RECURSIVE FirstTitle(_)
FirstTitle(cands) ==
    IF cands = <<>> THEN <<>>
    ELSE LET potential_title == clean_text(Head(cands))
         IN IF /\ potential_title # <<>>
               /\ Len(potential_title) > 3
               /\ Len(potential_title) < 100
            THEN potential_title
            ELSE FirstTitle(Tail(cands))

HasField(content, f) == f \in DOMAIN content.v /\ Truthy(content.v[f])

\* the operation name is left out of a full title
ComposeTitleDropsLevel3(level1_title, level2_title, level3_title, generic) ==
    IF level1_title # <<>> /\ level2_title # <<>>
    THEN level1_title \o <<" ", ">", " ">> \o level2_title
    ELSE IF level3_title # <<>> THEN level3_title
    ELSE IF generic # <<>> THEN clean_text(generic)
    ELSE <<>>

\* the title composed from the three levels and the generic title field
ComposeTitle(level1_title, level2_title, level3_title, generic) ==
    IF level1_title # <<>> /\ level2_title # <<>> /\ level3_title # <<>>
    THEN level1_title \o <<" ", ">", " ">> \o level2_title
         \o <<" ", ">", " ">> \o level3_title
    ELSE IF level1_title # <<>> /\ level2_title # <<>>
    THEN level1_title \o <<" ", ">", " ">> \o level2_title
    ELSE IF level3_title # <<>> THEN level3_title
    ELSE IF generic # <<>> THEN clean_text(generic)
    ELSE <<>>

\* whether post_process_content raises: the first item is not a mapping, or
\* the fallback concatenation meets the all_tables list
PostProcessRaises(json_content) ==
    /\ json_content.t = "list"
    /\ Len(json_content.v) > 0
    /\ LET content == json_content.v[1]
       IN \/ content.t # "dict"
          \/ ~HasField(content, "page_content") /\ HasField(content, "all_tables")

\* the locals level1_title, level2_title, level3_title and the generic
\* title field when the title is composed
TitleLevels(content) ==
    LET soup == IF HasField(content, "page_content")
                THEN content.v["page_content"] ELSE NoPage
        fromField == IF HasField(content, "level1_2_title")
                     THEN LevelsOf(clean_text(content.v["level1_2_title"].v))
                     ELSE << <<>>, <<>> >>
        fromHtml == IF /\ fromField[1] = <<>> /\ fromField[2] = <<>>
                       /\ soup.indexRef /\ soup.l12 # <<>>
                    THEN LevelsOf(clean_text(soup.l12))
                    ELSE fromField
        level3_field == IF HasField(content, "raw_title")
                        THEN clean_text(content.v["raw_title"].v) ELSE <<>>
        level3_title == IF level3_field # <<>> THEN level3_field
                        ELSE FirstTitle(soup.l3)
        generic == IF HasField(content, "title") THEN content.v["title"].v ELSE <<>>
    IN <<fromHtml[1], fromHtml[2], level3_title, generic>>

\* the title composed of the locals of the title step
TitleOf(levels) == ComposeTitle(levels[1], levels[2], levels[3], levels[4])

post_process_content(json_content) ==
    IF json_content.t # "list" \/ Len(json_content.v) = 0 THEN json_content
    ELSE
    LET content == json_content.v[1]
        request_table_html == Get(content, "request_params_table")
        response_table_html == Get(content, "response_params_table")
    IN List(<<Dict([
           title |-> Text(TitleOf(TitleLevels(content))),
           request_params |->
               IF Truthy(request_table_html)
               THEN List(extract_params_from_table(request_table_html.v, "request"))
               ELSE List(<<>>),
           response_params |->
               IF Truthy(response_table_html)
               THEN List(extract_params_from_table(response_table_html.v, "response"))
               ELSE List(<<>>),
           python_example |->
               Text(clean_python_example(
                   IF HasField(content, "python_example")
                   THEN content.v["python_example"].v ELSE <<>>))])>>)

(***************************************************************************)
(* The output directory.  A file name is its kind (doc_<index>.json,       *)
(* empty_<index>.json, all_results.json, any other name), the index in it  *)
(* and its extension; a file's content is the JSON value it parses to, or  *)
(* "garbage" (text that is no JSON document: an empty or truncated file),  *)
(* or "undecodable" (bytes that are no UTF-8 text).                        *)
(***************************************************************************)
DocFile(index) == [kind |-> "doc", index |-> index, ext |-> "json"]
EmptyFile(index) == [kind |-> "empty", index |-> index, ext |-> "json"]
ResultsFile == [kind |-> "all_results", index |-> "", ext |-> "json"]
LogFile == [kind |-> "other", index |-> "", ext |-> "log"]

Json(val) == [kind |-> "json", val |-> val]
Garbage == [kind |-> "garbage"]
Undecodable == [kind |-> "undecodable"]

\* the directory d with file f holding content c
WriteFile(d, f, c) == [n \in DOMAIN d \cup {f} |-> IF n = f THEN c ELSE d[n]]

\* os.remove
RemoveFile(d, f) == [n \in DOMAIN d \ {f} |-> d[n]]

\* open(f, "w") followed by json.dump(val, f) under a write fault: "none": the
\* file holds val; "open": open raises, the directory is as before; "dump":
\* the file is created or truncated and the write raises part-way
WriteJson(d, f, val, fault) ==
    CASE fault = "none" -> WriteFile(d, f, Json(val))
      [] fault = "open" -> d
      [] fault = "dump" -> WriteFile(d, f, Garbage)

WriteFaults == {"none", "open", "dump"}

(***************************************************************************)
(* crawl_doc_page                                                          *)
(*                                                                         *)
(* What crawler.arun does is an input: it raises, or it returns a result   *)
(* with success, extracted_content and error_message.  extracted_content   *)
(* is None, a blank string, text that is no JSON, or the text of a JSON    *)
(* value.                                                                  *)
(***************************************************************************)
Raise(exc) == [kind |-> "raise", exc |-> exc]
Result(success, extracted_content, error_message) ==
    [kind |-> "result", success |-> success,
     extracted_content |-> extracted_content, error_message |-> error_message]

NoneContent == [t |-> "none"]
BlankContent == [t |-> "blank"]
GarbageContent == [t |-> "garbage"]
JsonContent(val) == [t |-> "jsontext", val |-> val]

EmptyKeywords == << <<"4", "0", "4">>,
                    <<"n", "o", "t", " ", "f", "o", "u", "n", "d">>,
                    <<"e", "m", "p", "t", "y">>,
                    <<"t", "i", "m", "e", "o", "u", "t">>,
                    <<"w", "a", "i", "t", " ", "c", "o", "n", "d", "i", "t", "i", "o", "n",
                      " ", "f", "a", "i", "l", "e", "d">> >>

\* the return value {"is_empty_page": True}
EmptyPageMark == Dict([is_empty_page |-> Bool(TRUE)])

\* result.error_message and any(keyword in result.error_message.lower() ...)
HasEmptyKeyword(error_message) ==
    /\ Truthy(error_message)
    /\ \E n \in 1..Len(EmptyKeywords) : Contains(EmptyKeywords[n], Lower(error_message.v))

\* extracted_content is None or strips to "" or to "[]"
ContentBlank(ec) ==
    \/ ec.t \in {"none", "blank"}
    \/ ec.t = "jsontext" /\ ec.val = List(<<>>)

\* not json_content or (a list that is empty or holds no truthy item)
JsonEmpty(json_content) ==
    \/ ~Truthy(json_content)
    \/ /\ json_content.t = "list"
       /\ \/ Len(json_content.v) = 0
          \/ ~\E n \in 1..Len(json_content.v) : Truthy(json_content.v[n])

\* what the checked, post-processed content leads to
ProcessedOutcome(processed_content) ==
    IF \/ ~Truthy(processed_content)
       \/ processed_content.t = "list" /\ Len(processed_content.v) = 0
    THEN [kind |-> "empty"]
    ELSE [kind |-> "doc", processed_content |-> processed_content]

\* crawl_doc_page up to its write, for what arun did: "none" (it returns
\* None), "empty" (it returns the empty page mark) or "doc" (it goes on to
\* write processed_content)
FetchOutcome(rr) ==
    IF rr.kind = "raise" THEN [kind |-> "none"]
    ELSE IF rr.success
    THEN IF ContentBlank(rr.extracted_content) THEN [kind |-> "empty"]
         ELSE IF rr.extracted_content.t = "garbage" THEN [kind |-> "none"]
         ELSE IF JsonEmpty(rr.extracted_content.val) THEN [kind |-> "empty"]
         ELSE IF PostProcessRaises(rr.extracted_content.val) THEN [kind |-> "none"]
         ELSE ProcessedOutcome(post_process_content(rr.extracted_content.val))
    ELSE IF HasEmptyKeyword(rr.error_message) THEN [kind |-> "empty"]
         ELSE [kind |-> "none"]

\* the value crawl_doc_page returns and the directory it leaves, from the
\* outcome before the write and the write fault met
crawl_doc_page(fetched, index, d, fault) ==
    CASE fetched.kind = "none" -> [ret |-> Null, disk |-> d]
      [] fetched.kind = "empty" -> [ret |-> EmptyPageMark, disk |-> d]
      [] fetched.kind = "doc" ->
            [ret |-> IF fault = "none" THEN fetched.processed_content ELSE Null,
             disk |-> WriteJson(d, DocFile(index), fetched.processed_content, fault)]

(***************************************************************************)
(* cleanup_empty_files                                                     *)
(***************************************************************************)
\* what the loop body does with one listed file: "skip" (not a .json name),
\* "keep", "remove", or "raise" (an exception the body does not catch)
FileVerdict(f, c) ==
    IF f.ext # "json" THEN "skip"
    ELSE IF c.kind = "undecodable" THEN "raise"
    ELSE IF c.kind = "garbage" THEN "remove"
    ELSE LET content == c.val
         IN IF ~Truthy(content) THEN "remove"
            ELSE IF content.t = "list" /\ Len(content.v) = 1
            THEN IF content.v[1].t # "dict" THEN "raise"
                 ELSE IF ~Truthy(Get(content.v[1], "request_params")) THEN "remove"
                 ELSE "keep"
            ELSE "keep"

\* the for loop over the listed names, from the directory d with
\* count_removed = count: the directory left, the count, whether it raised
RECURSIVE SweepLoop(_, _, _)
SweepLoop(order, d, count) ==
    IF order = <<>> THEN [disk |-> d, count |-> count, raised |-> FALSE]
    ELSE LET f == Head(order)
             verdict == FileVerdict(f, d[f])
         IN CASE verdict = "raise" -> [disk |-> d, count |-> count, raised |-> TRUE]
              [] verdict = "remove" -> SweepLoop(Tail(order), RemoveFile(d, f), count + 1)
              [] OTHER -> SweepLoop(Tail(order), d, count)

cleanup_empty_files(order, d) == SweepLoop(order, d, 0)

RECURSIVE SetToSeq(_)
SetToSeq(S) == IF S = {} THEN <<>>
               ELSE LET x == CHOOSE x \in S : TRUE IN <<x>> \o SetToSeq(S \ {x})

\* os.listdir returns the names in arbitrary order.  What a sweep does
\* depends on the order only through the first file at which it raises and
\* the files listed before that one: one order for each such choice.
ListdirOrders(d) ==
    LET fatal == {f \in DOMAIN d : FileVerdict(f, d[f]) = "raise"}
        others == DOMAIN d \ fatal
    IN IF fatal = {} THEN {SetToSeq(DOMAIN d)}
       ELSE {SetToSeq(before) \o <<x>> \o SetToSeq(DOMAIN d \ (before \cup {x})) :
                 before \in SUBSET others, x \in fatal}

\* the record kept of one call: the directory before and after it, and what
\* it returned or that it raised
SweepRecord(d, out) ==
    [raised |-> out.raised, count |-> out.count, before |-> d, after |-> out.disk]

(***************************************************************************)
(* The inputs of a run: what the renderer may answer and what the output   *)
(* directory holds when the process starts.                                *)
(***************************************************************************)
TimeoutMessage == Text(<<"T", "i", "m", "e", "o", "u", "t", " ", "3", "0", "0", "0", "0",
                         "m", "s">>)
OtherMessage == Text(<<"n", "e", "t", ":", ":", "E", "R", "R">>)

ParamRow(option) ==
    [cls |-> <<RowClass>>,
     cells |-> <<[cls |-> <<CellClass>>, html |-> <<"i", "d">>],
                 [cls |-> <<CellClass>>, html |-> <<"s", "t", "r">>],
                 [cls |-> <<CellClass>>, html |-> option],
                 [cls |-> <<CellClass>>, html |-> <<"k", "e", "y">>]>>]

TableHtml(rows) == [t |-> "html", v |-> rows]

\* a page with a breadcrumb, an operation name and a request table
FullItem ==
    Dict([level1_2_title |-> Text(<<"A", " ", ">", " ", "B">>),
          raw_title |-> Text(<<"N", "a", "m", "e">>),
          request_params_table |-> TableHtml(<<ParamRow(RequiredMarker)>>),
          page_content |-> NoPage])

\* an extraction without page body whose all_tables field, an html_list, is
\* a list of fragments
TablesItem ==
    Dict([level1_2_title |-> Text(<<"A", " ", ">", " ", "B">>),
          raw_title |-> Text(<<"N", "a", "m", "e">>),
          request_params_table |-> TableHtml(<<ParamRow(RequiredMarker)>>),
          all_tables |-> List(<<TableHtml(<<ParamRow(RequiredMarker)>>)>>)])

\* a page of which only the body was extracted
BareItem == Dict([page_content |-> NoPage])

NotFoundMessage == Text(<<"4", "0", "4", " ", "N", "o", "t", " ", "F", "o", "u", "n", "d">>)

\* What the site serves for an index is a property of the index: a full
\* page, a page of which only the body is extracted, a page that extracts
\* to nothing, no page at all, a page whose render always times out, or a
\* page whose render always fails otherwise.
PageKinds == <<"full", "bare", "blank", "missing", "hung", "down">>

\* set(q) of a list
ToSet(q) == {q[p] : p \in 1..Len(q)}

\* error messages of an unsuccessful render, one for each keyword in upper,
\* lower or mixed case, and messages that hold no keyword
EmptyWordMessage == Text(<<"E", "m", "p", "t", "y", " ", "r", "e", "p", "l", "y">>)
WaitMessage == Text(<<"W", "A", "I", "T", " ", "C", "O", "N", "D", "I", "T", "I", "O", "N", " ",
                      "F", "A", "I", "L", "E", "D">>)
StatusMessage == Text(<<"H", "T", "T", "P", " ", "4", "0", "4">>)
NoSuchPageMessage == Text(<<"p", "a", "g", "e", " ", "n", "o", "t", " ", "f", "o", "u", "n", "d">>)
TimeOutMessage == Text(<<"t", "i", "m", "e", " ", "o", "u", "t">>)

\* pages whose render always reports the same failure, named by its message
FailingKinds ==
    <<"says-empty", "says-wait", "says-404", "says-not-found", "says-timeout",
      "says-time-out", "says-other", "says-blank", "says-nothing">>

\* what crawler.arun can answer for a page of that kind
SiteAnswers(kind) ==
    CASE kind = "full" -> {Result(TRUE, JsonContent(List(<<FullItem>>)), Null)}
      [] kind = "bare" -> {Result(TRUE, JsonContent(List(<<BareItem>>)), Null)}
      [] kind = "blank" -> {Result(TRUE, BlankContent, Null)}
      [] kind = "missing" -> {Result(FALSE, NoneContent, NotFoundMessage)}
      [] kind = "hung" -> {Raise("TimeoutError"),
                           Result(FALSE, NoneContent, TimeoutMessage)}
      [] kind = "down" -> {Raise("RuntimeError"),
                           Result(FALSE, NoneContent, OtherMessage),
                           Result(FALSE, NoneContent, Null)}
      [] kind = "tables-only" -> {Result(TRUE, JsonContent(List(<<TablesItem>>)), Null)}
      [] kind = "says-empty" -> {Result(FALSE, NoneContent, EmptyWordMessage)}
      [] kind = "says-wait" -> {Result(FALSE, NoneContent, WaitMessage)}
      [] kind = "says-404" -> {Result(FALSE, NoneContent, StatusMessage)}
      [] kind = "says-not-found" -> {Result(FALSE, NoneContent, NoSuchPageMessage)}
      [] kind = "says-timeout" -> {Result(FALSE, NoneContent, TimeoutMessage)}
      [] kind = "says-time-out" -> {Result(FALSE, NoneContent, TimeOutMessage)}
      [] kind = "says-other" -> {Result(FALSE, NoneContent, OtherMessage)}
      [] kind = "says-blank" -> {Result(FALSE, NoneContent, Text(<<>>))}
      [] kind = "says-nothing" -> {Result(FALSE, NoneContent, Null)}

\* What a render of a page that is served may meet instead: arun raises or
\* reports a failure, or delivers an extraction that is no JSON or holds no
\* mapping.
TransientResults ==
    {Raise("TimeoutError"),
     Result(FALSE, NoneContent, TimeoutMessage),
     Result(FALSE, NoneContent, OtherMessage),
     Result(TRUE, GarbageContent, Null),
     Result(TRUE, JsonContent(List(<<Num(5)>>)), Null)}

RenderResults ==
    TransientResults
    \cup UNION {SiteAnswers(PageKinds[n]) : n \in 1..Len(PageKinds)}
    \cup UNION {SiteAnswers(FailingKinds[n]) : n \in 1..Len(FailingKinds)}
    \cup SiteAnswers("tables-only")

\* what one render of the page of that kind can answer
Answers(kind) ==
    IF kind \in {"hung", "down", "tables-only"} \cup ToSet(FailingKinds)
    THEN SiteAnswers(kind)
    ELSE SiteAnswers(kind) \cup TransientResults

\* the sites of the model: the page kinds dealt to the work list in turn,
\* from the kind numbered shift + 1
SiteFrom(work, shift) ==
    [idx \in {work[p] : p \in 1..Len(work)} |->
        PageKinds[((shift + (CHOOSE p \in 1..Len(work) : work[p] = idx) - 1)
                   % Len(PageKinds)) + 1]]

\* FetchOutcome of each answer of the renderer
Fetched == [rr \in RenderResults |-> FetchOutcome(rr)]


\* all_results.json of a run that completed every index but the first r
CompletedAllBut(r) ==
    Json(Dict([k \in ToSet(Drop(generate_indices, r + 1)) |-> List(<<>>)]))

EmptyDir == [f \in {} |-> Garbage]

InitDirs ==
    {EmptyDir}
    \cup {WriteFile(EmptyDir, ResultsFile, CompletedAllBut(r)) : r \in 0..MaxRemaining}

\* the sites a work list is run against: every run of consecutive page kinds
Sites(work) ==
    {SiteFrom(work, shift) :
        shift \in 0..(IF Len(work) < Len(PageKinds)
                      THEN Len(PageKinds) - Len(work) ELSE 0)}

(***************************************************************************)
(* main: the work list                                                     *)
(***************************************************************************)
TestCount == 5

\* the results file is never read
CompletedIndicesNone(d) == {}

\* the keys of all_results.json; none when it is missing or reading it raises
CompletedIndices(d) ==
    IF /\ ResultsFile \in DOMAIN d
       /\ d[ResultsFile].kind = "json"
       /\ d[ResultsFile].val.t = "dict"
    THEN DOMAIN d[ResultsFile].val.v
    ELSE {}

\* --resume is looked at before --test
MainWorkListResumeFirst(a, d) ==
    IF a.resume
    THEN SelectSeq(generate_indices, LAMBDA idx : idx \notin CompletedIndices(d))
    ELSE IF a.test
    THEN SubSeq(generate_indices, 1, TestCount)
    ELSE generate_indices

\* the list main hands to crawl_with_table_navigation
MainWorkList(a, d) ==
    IF a.test
    THEN SubSeq(generate_indices, 1,
                IF Len(generate_indices) < TestCount
                THEN Len(generate_indices) ELSE TestCount)
    ELSE IF a.resume
    THEN SelectSeq(generate_indices, LAMBDA idx : idx \notin CompletedIndices(d))
    ELSE generate_indices

(***************************************************************************)
(* crawl_with_table_navigation and process_index                           *)
(*                                                                         *)
(* One task per index of the work list.  A task is "queued" until it holds *)
(* a permit; inside the gate it is in "jitter" (the sleeps before the      *)
(* page visit), in "render" (crawler.arun in flight) or in "backoff" (the  *)
(* sleep after a failed attempt), and "done" behind the finally clause.    *)
(* hist holds the classification of each attempt made so far.              *)
(***************************************************************************)
Permits == 3
MaxAttempts == 3
BackoffBelow == 3

NewTask == [pc |-> "queued", attempt |-> 0, hist |-> <<>>, state |-> "Pending"]

InGate(t) == t.pc \in {"jitter", "render", "backoff"}

\* the gate admits whoever asks
CanAcquireAlways(sem) == TRUE

\* Semaphore.acquire returns only while a permit is free
CanAcquire(sem) == sem > 0

\* a task that gave up keeps its permit
ReleaseUnlessAbandoned(sem, state) == IF state = "Abandoned" THEN sem ELSE sem + 1

\* leaving "async with semaphore", on whatever path
Release(sem, state) == sem + 1

\* the classification of what crawl_doc_page returned
Classify(ret) ==
    IF Truthy(ret) /\ ret.t = "dict" /\ Truthy(Get(ret, "is_empty_page"))
    THEN "EmptyPage"
    ELSE IF Truthy(ret) THEN "Success" ELSE "Failure"

\* the content of empty_<index>.json
EmptyMarker(index) ==
    Dict([index |-> Text(index),
          status |-> Text(<<"e", "m", "p", "t", "y">>),
          checked_time |-> Text(<<"t">>)])

\* the loop is left at once on every attempt
AfterAttemptGiveUp(attempt) == "Abandoned"

\* behind the sleep that follows a failed attempt: the next round of
\* "for attempt in range(3)", or the end of the loop
AfterAttempt(attempt) == IF attempt + 1 < MaxAttempts THEN "retry" ELSE "Abandoned"

\* the finally clause counts nothing
ProgressSkipped(count) == count

\* completed += 1 of the finally clause; no await stands between its read
\* and its write, so no other task runs in between
Progress(count) == count + 1

\* the task record behind the finally clause
Finished(t, cls, state) ==
    [t EXCEPT !.pc = "done", !.hist = Append(t.hist, cls), !.state = state]

\* gather starts the tasks in the order of the list and the semaphore wakes
\* its waiters first come, first served: a task is admitted once every task
\* before it in the list has been
FirstWaiter(idx) ==
    \A p, q \in 1..Len(indices) :
        indices[q] = idx /\ p < q => task[indices[p]].pc # "queued"

MainStart ==
    /\ mpc = "start"
    /\ mpc' = "crawl"
    /\ indices' = MainWorkList(args, disk)
    /\ task' = [idx \in ToSet(indices') |-> NewTask]
    /\ semaphore' = Permits
    /\ completed' = 0
    /\ results' = {}
    /\ UNCHANGED <<past, args, site, faults, genVars, normVars, dirVars>>

\* an index enters its attempt loop without taking a permit
AcquireNoPermit(idx) ==
    /\ mpc = "crawl"
    /\ task[idx].pc = "queued"
    /\ FirstWaiter(idx)
    /\ task' = [task EXCEPT ![idx].pc = "jitter"]
    /\ UNCHANGED <<past, args, site, mpc, indices, semaphore, completed, results, faults,
                   genVars, normVars, dirVars>>

\* "async with semaphore" is entered
Acquire(idx) ==
    /\ mpc = "crawl"
    /\ task[idx].pc = "queued"
    /\ FirstWaiter(idx)
    /\ CanAcquire(semaphore)
    /\ semaphore' = semaphore - 1
    /\ task' = [task EXCEPT ![idx].pc = "jitter"]
    /\ UNCHANGED <<past, args, site, mpc, indices, completed, results, faults, genVars, normVars, dirVars>>

\* the jitter sleeps are over and crawler.arun is called
StartRender(idx) ==
    /\ task[idx].pc = "jitter"
    /\ task' = [task EXCEPT ![idx].pc = "render"]
    /\ UNCHANGED <<past, args, site, mpc, indices, semaphore, completed, results, faults,
                   genVars, normVars, dirVars>>

\* crawler.arun is over: the rest of crawl_doc_page and of the attempt
RenderReturn(idx) ==
    /\ task[idx].pc = "render"
    /\ \E rr \in Answers(site[idx]) :
       \E fault \in IF Fetched[rr].kind = "doc" THEN WriteFaults ELSE {"none"} :
       \E mfault \in IF Fetched[rr].kind = "empty" THEN WriteFaults ELSE {"none"} :
        LET out == crawl_doc_page(Fetched[rr], idx, disk, fault)
            cls == Classify(out.ret)
            t == task[idx]
            nwrite == (IF fault # "none" THEN 1 ELSE 0)
                      + (IF mfault # "none" THEN 1 ELSE 0)
            nrender == IF rr \in SiteAnswers(site[idx]) THEN 0 ELSE 1
        IN /\ faults.write + nwrite <= MaxWriteFaults
           /\ faults.render + nrender <= MaxRenderFaults
           /\ faults' = [write |-> faults.write + nwrite,
                         render |-> faults.render + nrender]
           /\ CASE cls = "EmptyPage" ->
                    /\ disk' = WriteJson(out.disk, EmptyFile(idx), EmptyMarker(idx), mfault)
                    /\ results' = results
                    /\ IF mfault = "none"
                       THEN /\ task' = [task EXCEPT ![idx] = Finished(t, cls, "EmptyConfirmed")]
                            /\ completed' = Progress(completed)
                            /\ semaphore' = Release(semaphore, "EmptyConfirmed")
                       ELSE /\ task' = [task EXCEPT ![idx] =
                                          [t EXCEPT !.pc = "backoff",
                                                    !.hist = Append(t.hist, cls)]]
                            /\ UNCHANGED <<completed, semaphore>>
                [] cls = "Success" ->
                    /\ disk' = out.disk
                    /\ results' = results \cup {idx}
                    /\ task' = [task EXCEPT ![idx] = Finished(t, cls, "Succeeded")]
                    /\ completed' = Progress(completed)
                    /\ semaphore' = Release(semaphore, "Succeeded")
                [] OTHER ->
                    /\ disk' = out.disk
                    /\ task' = [task EXCEPT ![idx] =
                                  [t EXCEPT !.pc = IF t.attempt < BackoffBelow
                                                   THEN "backoff" ELSE "next",
                                            !.hist = Append(t.hist, cls)]]
                    /\ UNCHANGED <<results, completed, semaphore>>
    /\ UNCHANGED <<past, args, site, mpc, indices, sweeps, genVars, normVars>>

\* the sleep after a failed attempt is over
BackoffDone(idx) ==
    /\ task[idx].pc \in {"backoff", "next"}
    /\ IF AfterAttempt(task[idx].attempt) = "retry"
       THEN /\ task' = [task EXCEPT ![idx].pc = "jitter",
                                    ![idx].attempt = task[idx].attempt + 1]
            /\ UNCHANGED <<completed, semaphore>>
       ELSE /\ task' = [task EXCEPT ![idx].pc = "done", ![idx].state = "Abandoned"]
            /\ completed' = Progress(completed)
            /\ semaphore' = Release(semaphore, "Abandoned")
    /\ UNCHANGED <<past, args, site, mpc, indices, results, faults, genVars, normVars, dirVars>>

\* the wait is over as soon as one task is done
GatherFirst(tasks) == \E idx \in DOMAIN tasks : tasks[idx].pc = "done"

\* await asyncio.gather(*tasks) is over once every task is done
GatherDone(tasks) == \A idx \in DOMAIN tasks : tasks[idx].pc = "done"

OrchestratorReturn ==
    /\ mpc = "crawl"
    /\ GatherDone(task)
    /\ mpc' = "returned"
    /\ UNCHANGED <<past, args, site, indices, task, semaphore, completed, results, faults,
                   genVars, normVars, dirVars>>

\* the sweep is called whatever the flags
RunsCleanupAlways(a) == TRUE

\* "if not args.test" in front of the call of cleanup_empty_files
RunsCleanup(a) == ~a.test

\* the rest of main: the sweep unless --test; an exception of the sweep ends
\* the process through the handler of the entry point
MainFinish ==
    /\ mpc = "returned"
    /\ IF RunsCleanup(args)
       THEN \E order \in ListdirOrders(disk) :
               LET out == cleanup_empty_files(order, disk)
               IN /\ disk' = out.disk
                  /\ sweeps' = Append(sweeps, SweepRecord(disk, out))
                  /\ mpc' = IF out.raised THEN "failed" ELSE "done"
       ELSE /\ mpc' = "done"
            /\ UNCHANGED dirVars
    /\ UNCHANGED <<past, args, site, indices, task, semaphore, completed, results, faults, genVars, normVars>>

\* The process starts with any flags on any of the directories InitDirs whose
\* work list has at most MaxWork indices: --test (with or without --resume)
\* on an empty directory, and --resume on a directory whose results file
\* leaves 0..MaxRemaining indices.  A run over all 100 indices (no flag, or
\* --resume without a results file) is the same code on a longer list and is
\* left out for its size.
Init ==
    /\ gen = GenIdle
    /\ genOut = <<>>
    /\ norm = NormIdle
    /\ args \in [test : BOOLEAN, resume : BOOLEAN]
    /\ mpc = "start"
    /\ indices = <<>>
    /\ task = [idx \in {} |-> NewTask]
    /\ semaphore = Permits
    /\ completed = 0
    /\ results = {}
    /\ disk \in InitDirs
    /\ Len(MainWorkList(args, disk)) <= MaxWork
    /\ args.test => disk = EmptyDir
    /\ site \in Sites(MainWorkList(args, disk))
    /\ faults = [write |-> 0, render |-> 0]
    /\ sweeps = <<>>
    /\ past = <<>>

Next ==
    \/ MainStart
    \/ \E idx \in DOMAIN task : Acquire(idx)
    \/ \E idx \in DOMAIN task : StartRender(idx)
    \/ \E idx \in DOMAIN task : RenderReturn(idx)
    \/ \E idx \in DOMAIN task : BackoffDone(idx)
    \/ OrchestratorReturn
    \/ MainFinish

Spec == Init /\ [][Next]_vars

\* every step that is enabled is eventually taken: each render call and each
\* sleep returns, and the event loop runs whatever is ready
LiveSpec == Spec /\ WF_vars(Next)

(***************************************************************************)
(* generate_indices on its own: the loop, one step at a time               *)
(***************************************************************************)
NoRun ==
    /\ args = [test |-> FALSE, resume |-> FALSE]
    /\ site = [idx \in {} |-> "full"]
    /\ mpc = "off"
    /\ indices = <<>>
    /\ task = [idx \in {} |-> NewTask]
    /\ semaphore = Permits
    /\ completed = 0
    /\ results = {}
    /\ faults = [write |-> 0, render |-> 0]

InitGen ==
    /\ gen = GenIdle
    /\ genOut = <<>>
    /\ norm = NormIdle
    /\ NoRun
    /\ disk = EmptyDir
    /\ sweeps = <<>>
    /\ past = <<>>

NextGen == GenCall \/ GenLoop \/ GenReturn

SpecGen == InitGen /\ [][NextGen]_vars

(***************************************************************************)
(* cleanup_empty_files on its own: successive sweeps of one directory      *)
(***************************************************************************)
\* a page with an operation name and no request table
TitledItem == Dict([raw_title |-> Text(<<"N", "a", "m", "e">>), page_content |-> NoPage])

RecordOf(item) == post_process_content(List(<<item>>)).v[1]

\* what a .json file of the directory may hold
SweepContents ==
    {Json(List(<<RecordOf(FullItem)>>)),
     Json(List(<<RecordOf(TitledItem)>>)),
     Json(List(<<RecordOf(BareItem)>>)),
     Json(List(<<RecordOf(FullItem), RecordOf(BareItem)>>)),
     Json(List(<<>>)),
     Json(List(<<Num(5)>>)),
     Json(EmptyMarker("2-1-3")),
     Json(Null),
     Garbage,
     Undecodable}

SweepNames == {DocFile("2-1-1"), DocFile("2-1-2"), EmptyFile("2-1-3")}

SweepDirs ==
    UNION {[names \cup logs -> SweepContents] :
              names \in SUBSET SweepNames, logs \in {{}, {LogFile}}}

InitSweep ==
    /\ gen = GenIdle
    /\ genOut = <<>>
    /\ norm = NormIdle
    /\ NoRun
    /\ disk \in SweepDirs
    /\ sweeps = <<>>
    /\ past = <<>>

SweepCall ==
    /\ Len(sweeps) < MaxSweeps
    /\ \E order \in ListdirOrders(disk) :
          LET out == cleanup_empty_files(order, disk)
          IN /\ disk' = out.disk
             /\ sweeps' = Append(sweeps, SweepRecord(disk, out))
    /\ UNCHANGED <<past, genVars, normVars, runVars>>

NextSweep == SweepCall

SpecSweep == InitSweep /\ [][NextSweep]_vars

(***************************************************************************)
(* Properties of the orchestrator                                          *)
(***************************************************************************)
TerminalStates == {"Succeeded", "EmptyConfirmed", "Abandoned"}

\* the render calls made for an index so far, the one in flight included
Renders(idx) == Len(task[idx].hist) + (IF task[idx].pc = "render" THEN 1 ELSE 0)

Inside == {idx \in DOMAIN task : InGate(task[idx])}

Rendering == {idx \in DOMAIN task : task[idx].pc = "render"}

HasArtifact(idx) == DocFile(idx) \in DOMAIN disk \/ EmptyFile(idx) \in DOMAIN disk

AllFailures(idx) ==
    \A n \in 1..Len(task[idx].hist) : task[idx].hist[n] = "Failure"

\* C1: at most 3 indices are inside the admission gate at the same time, so
\* at most 3 render calls are in flight at the same time, however many
\* indices are queued and however the tasks interleave.
C1_AtMostThreeInside ==
    /\ Cardinality(Inside) <= 3
    /\ Cardinality(Rendering) <= 3

\* three renders in flight while another index waits at the gate
C1_Witness ==
    /\ Cardinality(Rendering) = 3
    /\ \E idx \in DOMAIN task : task[idx].pc = "queued"

C3_EmptyShortCircuits ==
    \A idx \in DOMAIN task :
        task[idx].hist # <<>> /\ task[idx].hist[1] = "EmptyPage" =>
            /\ Renders(idx) = 1
            /\ task[idx].pc = "done" =>
                  /\ EmptyFile(idx) \in DOMAIN disk
                  /\ disk[EmptyFile(idx)] = Json(EmptyMarker(idx))

\* C4: the permit an index took is returned however its processing ends:
\* the free permits and the indices inside the gate always add up to 3, and
\* all 3 permits are free once the orchestrator has returned.
C4_PermitsNeverLeaked ==
    /\ semaphore + Cardinality(Inside) = 3
    /\ mpc \in {"returned", "done", "failed"} => semaphore = 3

\* the orchestrator has returned from a run in which an index succeeded,
\* one was confirmed empty, one was given up and one met a fault while its
\* empty marker was written
C4_Witness ==
    /\ mpc = "returned"
    /\ \E idx \in DOMAIN task : task[idx].state = "Succeeded"
    /\ \E idx \in DOMAIN task : task[idx].state = "EmptyConfirmed"
    /\ \E idx \in DOMAIN task : task[idx].state = "Abandoned"
    /\ \E idx \in DOMAIN task :
          Len(task[idx].hist) >= 2 /\ task[idx].hist[1] = "EmptyPage"

\* C5: when every render call and sleep returns, the orchestrator returns,
\* and only after every index of the work list has reached a terminal state;
\* a fault met by one index keeps no other index from being admitted and
\* reaching its terminal state, and ends the orchestrator in no other way.
C5_ReturnsAfterAllTerminal ==
    /\ [](mpc \in {"returned", "done", "failed"} =>
            \A p \in 1..Len(indices) :
                /\ task[indices[p]].pc = "done"
                /\ task[indices[p]].state \in TerminalStates)
    /\ <>(mpc \in {"done", "failed"})

\* the orchestrator has returned from a run of several indices in which a
\* render met a fault, a write raised and an index was given up
C5_Witness ==
    /\ mpc = "returned"
    /\ Len(indices) >= 2
    /\ faults.render > 0
    /\ faults.write > 0
    /\ \E idx \in DOMAIN task : task[idx].state = "Abandoned"
    /\ completed = Len(indices)

\* C6 (as stated): an index that is done is in exactly one of Succeeded,
\* EmptyConfirmed and Abandoned, and once an attempt, the first or a later
\* one, is classified Success or EmptyPage no further render call is made
\* for the index.
C6_TerminalAbsorbing ==
    \A idx \in DOMAIN task :
        /\ task[idx].pc = "done" => task[idx].state \in TerminalStates
        /\ \A n \in 1..Len(task[idx].hist) :
              task[idx].hist[n] \in {"Success", "EmptyPage"} => Renders(idx) = n

(***************************************************************************)
(* Properties of the housekeeping sweep                                    *)
(***************************************************************************)
Removed(sw) == DOMAIN sw.before \ DOMAIN sw.after

\* a file that parses to a one-element array holding a record
HoldsOneRecord(c) ==
    /\ c.kind = "json"
    /\ c.val.t = "list"
    /\ Len(c.val.v) = 1
    /\ c.val.v[1].t = "dict"

\* EMPTY: no request parameters and no usable title
EmptyRecord(rec) ==
    /\ ~Truthy(Get(rec, "request_params"))
    /\ ~Truthy(Get(rec, "title"))

\* C7 (as stated): of two sweeps in succession the second removes nothing
\* and returns 0, whatever the directory holds.
C7_SecondSweepRemovesNothing ==
    Len(sweeps) >= 2 =>
        /\ ~sweeps[2].raised
        /\ sweeps[2].count = 0
        /\ Removed(sweeps[2]) = {}

\* C8 (as stated): a sweep that returns has deleted a parsable .json file
\* holding a one-element array with a record exactly when the record is
\* EMPTY; a record with a title and no request parameters is kept.
C8_DeletesExactlyEmptyRecords ==
    \A n \in 1..Len(sweeps) :
        ~sweeps[n].raised =>
            \A f \in DOMAIN sweeps[n].before :
                f.ext = "json" /\ HoldsOneRecord(sweeps[n].before[f]) =>
                    (f \in Removed(sweeps[n])
                        <=> EmptyRecord(sweeps[n].before[f].val.v[1]))

\* C9 (as stated): when a run has finished, under every combination of the
\* flags, no doc artifact holds a record with empty request_params and an
\* empty title.
C9_NoEmptyRecordLeft ==
    mpc = "done" =>
        \A idx \in DOMAIN task :
            DocFile(idx) \in DOMAIN disk /\ HoldsOneRecord(disk[DocFile(idx)]) =>
                ~EmptyRecord(disk[DocFile(idx)].val.v[1])

(***************************************************************************)
(* Properties of generate_indices                                          *)
(***************************************************************************)
\* the key "i-j-k"
KeyText(i, j, k) == DigitChar[i + 1] \o "-" \o DigitChar[j + 1] \o "-" \o DigitChar[k + 1]

\* C10: every call of generate_indices returns the same 100 pairwise
\* distinct keys "i-j-k", i in 2..5, j in 1..5, k in 1..5, in nested order
\* with i outermost and k innermost.
C10_HundredNestedKeys ==
    \A c \in 1..Len(genOut) :
        /\ Len(genOut[c]) = 100
        /\ \A p, q \in 1..Len(genOut[c]) : p # q => genOut[c][p] # genOut[c][q]
        /\ \A i \in 2..5, j \in 1..5, k \in 1..5 :
              genOut[c][25 * (i - 2) + 5 * (j - 1) + k] = KeyText(i, j, k)
        /\ genOut[c] = genOut[1]

\* two calls have returned
C10_Witness == Len(genOut) = 2 /\ gen.pc = "idle"

(***************************************************************************)
(* main up to the call of the orchestrator: the work list for every flag   *)
(* combination and results file                                            *)
(***************************************************************************)
\* keys a results file may hold: indices of the universe and one that is not
SampleKeys == {"2-1-1", "2-1-2", "2-1-5", "3-3-3", "5-5-5", "9-9-9"}

\* what all_results.json may hold: a mapping over some keys, a JSON value
\* that is no mapping, text that is no JSON, bytes that are no text
ResultsContents ==
    {Json(Dict([k \in K |-> List(<<>>)])) : K \in SUBSET SampleKeys}
    \cup {Json(List(<<>>)), Json(Null), Garbage, Undecodable}

WorkDirs == {EmptyDir} \cup {WriteFile(EmptyDir, ResultsFile, c) : c \in ResultsContents}

InitWork ==
    /\ gen = GenIdle
    /\ genOut = <<>>
    /\ norm = NormIdle
    /\ args \in [test : BOOLEAN, resume : BOOLEAN]
    /\ site = [idx \in {} |-> "full"]
    /\ mpc = "start"
    /\ indices = <<>>
    /\ task = [idx \in {} |-> NewTask]
    /\ semaphore = Permits
    /\ completed = 0
    /\ results = {}
    /\ faults = [write |-> 0, render |-> 0]
    /\ disk \in WorkDirs
    /\ sweeps = <<>>
    /\ past = <<>>

NextWork == MainStart

SpecWork == InitWork /\ [][NextWork]_vars

\* the results file can be read and holds a mapping
ReadableResults(d) ==
    /\ ResultsFile \in DOMAIN d
    /\ d[ResultsFile].kind = "json"
    /\ d[ResultsFile].val.t = "dict"

\* the position of an index in the enumeration
PositionOf(idx) == CHOOSE p \in 1..Len(generate_indices) : generate_indices[p] = idx

\* C11: in resume mode with a readable results file of key set K the work
\* list is the enumerated universe minus K: no key of K is in it, every
\* other index of the universe is in it once, in enumeration order.
C11_ResumeSubtractsKeys ==
    mpc = "crawl" /\ args.resume /\ ~args.test /\ ReadableResults(disk) =>
        LET K == DOMAIN disk[ResultsFile].val.v
        IN /\ \A p \in 1..Len(indices) : indices[p] \notin K
           /\ \A p \in 1..Len(generate_indices) :
                 generate_indices[p] \notin K =>
                     Cardinality({q \in 1..Len(indices) :
                                     indices[q] = generate_indices[p]}) = 1
           /\ \A p \in 1..Len(indices) :
                 \E u \in 1..Len(generate_indices) : generate_indices[u] = indices[p]
           /\ \A p, q \in 1..Len(indices) :
                 p < q => PositionOf(indices[p]) < PositionOf(indices[q])

\* a resumed run whose results file holds the first two indices, one from
\* the middle and a key outside the universe
C11_Witness ==
    /\ mpc = "crawl"
    /\ args.resume /\ ~args.test
    /\ ReadableResults(disk)
    /\ DOMAIN disk[ResultsFile].val.v = {"2-1-1", "2-1-2", "3-3-3", "9-9-9"}
    /\ Len(indices) = 97

\* C12 (as stated): every flag combination is accepted; the work list is
\* the full 100 indices without flags, the first 5 with --test, and with
\* --resume, with or without --test, it holds no index of the results file.
C12_FlagsAsStated ==
    /\ mpc = "start" => ENABLED MainStart
    /\ mpc = "crawl" =>
          /\ ~args.test /\ ~args.resume => indices = generate_indices
          /\ args.test => indices = SubSeq(generate_indices, 1, 5)
          /\ args.resume /\ ReadableResults(disk) =>
                \A p \in 1..Len(indices) :
                    indices[p] \notin DOMAIN disk[ResultsFile].val.v

\* C12 (amended): every flag combination is accepted; the work list is the
\* full 100 indices without flags, the first 5 enumerated indices whenever
\* --test is given, whatever --resume and the results file say, and with
\* --resume alone it holds no index of the results file.
C12_TestOverridesResume ==
    /\ mpc = "start" => ENABLED MainStart
    /\ mpc = "crawl" =>
          /\ ~args.test /\ ~args.resume =>
                indices = generate_indices /\ Len(indices) = 100
          /\ args.test => indices = SubSeq(generate_indices, 1, 5)
          /\ args.resume /\ ~args.test /\ ReadableResults(disk) =>
                \A p \in 1..Len(indices) :
                    indices[p] \notin DOMAIN disk[ResultsFile].val.v

\* both flags given and the results file holds the first index: the work
\* list is the first five indices all the same
C12_Witness ==
    /\ mpc = "crawl"
    /\ args.test /\ args.resume
    /\ ReadableResults(disk)
    /\ "2-1-1" \in DOMAIN disk[ResultsFile].val.v
    /\ Len(indices) = 5
    /\ indices[1] = "2-1-1"

(***************************************************************************)
(* post_process_content on its own: one call on an extraction              *)
(***************************************************************************)
\* an extraction item holding the fields that are given (Null: field absent)
ItemOf(level1_2_title, raw_title, title, page_content) ==
    LET all == [level1_2_title |-> level1_2_title, raw_title |-> raw_title,
                title |-> title, page_content |-> page_content]
    IN Dict([f \in {g \in DOMAIN all : all[g] # Null} |-> all[f]])

BreadcrumbFields ==
    {Null,
     Text(<<>>),
     Text(<<"A", " ", ">", " ", "B">>),
     Text(<<"A">>),
     Text(<<" ", ">", " ", "B">>),
     Text(<<"A", "&", "g", "t", ";", "B", " ", ">", " ", "C">>)}

RawTitleFields == {Null, Text(<<" ", " ">>), Text(<<"N", "a", "m", "e">>)}

GenericTitleFields == {Null, Text(<<"G", "e", "n">>)}

PageFields ==
    {Null,
     Page(TRUE, <<"C", " ", ">", " ", "D">>, << <<"a", "b">>, <<"H", "e", "a", "d">> >>),
     Page(FALSE, <<"C", " ", ">", " ", "D">>, <<>>),
     Page(TRUE, <<"C">>, << <<"L", "o", "n", "g", "1">> >>)}

TitleItems ==
    {ItemOf(a, b, c, d) : a \in BreadcrumbFields, b \in RawTitleFields,
                          c \in GenericTitleFields, d \in PageFields}

InitTitle ==
    /\ gen = GenIdle
    /\ genOut = <<>>
    /\ norm \in {[pc |-> "called", fn |-> "post_process_content",
                  arg |-> List(<<item>>)] : item \in TitleItems}
    /\ NoRun
    /\ disk = EmptyDir
    /\ sweeps = <<>>
    /\ past = <<>>

\* the call runs to its return statement
PostProcessReturn ==
    /\ norm.pc = "called"
    /\ norm.fn = "post_process_content"
    /\ norm' = [pc |-> "returned", fn |-> norm.fn, arg |-> norm.arg,
                levels |-> TitleLevels(norm.arg.v[1]),
                ret |-> post_process_content(norm.arg)]
    /\ UNCHANGED <<past, genVars, runVars, dirVars>>

NextTitle == PostProcessReturn

SpecTitle == InitTitle /\ [][NextTitle]_vars

TitleSep == <<" ", ">", " ">>

\* C13: the title post_process_content composes is "L1 > L2 > L3" when the
\* three levels are all non-empty, L3 when only L3 is non-empty, and the
\* empty string when no level and no generic title field was recovered.
C13_TitleComposition ==
    norm.pc = "returned" /\ norm.fn = "post_process_content" =>
        LET L1 == norm.levels[1]
            L2 == norm.levels[2]
            L3 == norm.levels[3]
            generic == norm.levels[4]
            title == norm.ret.v[1].v.title.v
        IN /\ L1 # <<>> /\ L2 # <<>> /\ L3 # <<>> =>
                 title = L1 \o TitleSep \o L2 \o TitleSep \o L3
           /\ L1 = <<>> /\ L2 = <<>> /\ L3 # <<>> => title = L3
           /\ L1 = <<>> /\ L2 = <<>> /\ L3 = <<>> /\ generic = <<>> => title = <<>>

\* a page with breadcrumb "A > B" and operation name "Name": the title is
\* "A > B > Name"
C13_Witness ==
    /\ norm.pc = "returned"
    /\ norm.fn = "post_process_content"
    /\ norm.levels[1] = <<"A">>
    /\ norm.levels[2] = <<"B">>
    /\ norm.levels[3] = <<"N", "a", "m", "e">>
    /\ norm.ret.v[1].v.title.v
          = <<"A", " ", ">", " ", "B", " ", ">", " ", "N", "a", "m", "e">>

(***************************************************************************)
(* extract_params_from_table on its own: one call on a table fragment      *)
(***************************************************************************)
MaxRows == 2           \* rows of a table fragment

\* the option cell: the required marker, the optional marker, the required
\* marker inside a <span>, the required marker with a tag inside it
OptionCells ==
    {RequiredMarker,
     <<"U53EF", "U9009">>,
     <<"<", "s", "p", "a", "n", ">", "U5FC5", "U9009", "<", "/", "s", "p", "a", "n", ">">>,
     <<"U5FC5", "<", "b", ">", "U9009", "<", "/", "b", ">">>}

\* the class attributes of a row: the row class, the row class behind
\* another class, a class that only starts with the row class, another class
RowClasses == {<<RowClass>>, <<"hover", RowClass>>, <<StripedRowClass>>, <<"head">>}

CellClasses == {<<CellClass>>, <<CellClass, "wide">>}

\* a row of n cells whose third cell is the option cell
TableRow(rowcls, cellcls, n, option) ==
    [cls |-> rowcls,
     cells |-> SubSeq(<<[cls |-> cellcls, html |-> <<"i", "d">>],
                        [cls |-> cellcls, html |-> <<"s", "t", "r">>],
                        [cls |-> cellcls, html |-> option],
                        [cls |-> cellcls, html |-> <<"k", "e", "y">>]>>, 1, n)]

TableRows ==
    {TableRow(rc, cc, n, o) : rc \in RowClasses, cc \in CellClasses,
                              n \in 2..4, o \in OptionCells}

\* the first rows of table fragments of two rows
LeadRows ==
    {TableRow(rc, <<CellClass>>, n, RequiredMarker) : rc \in RowClasses, n \in 2..4}

Tables ==
    {<<r>> : r \in TableRows}
    \cup {<<l, r>> : l \in LeadRows, r \in TableRows}

InitTable ==
    /\ gen = GenIdle
    /\ genOut = <<>>
    /\ norm \in {[pc |-> "called", fn |-> "extract_params_from_table",
                  arg |-> [table_html |-> t, table_type |-> k]] :
                    t \in {x \in Tables : Len(x) <= MaxRows},
                    k \in {"request", "response"}}
    /\ NoRun
    /\ disk = EmptyDir
    /\ sweeps = <<>>
    /\ past = <<>>

\* the call runs to its return statement; params is the local of that name
\* when the structural loop ends, before the fallback is decided
ExtractReturn ==
    /\ norm.pc = "called"
    /\ norm.fn = "extract_params_from_table"
    /\ norm' = [pc |-> "returned", fn |-> norm.fn, arg |-> norm.arg,
                params |-> StructuralParams(norm.arg.table_html, norm.arg.table_type),
                ret |-> extract_params_from_table(norm.arg.table_html,
                                                  norm.arg.table_type)]
    /\ UNCHANGED <<past, genVars, runVars, dirVars>>

NextTable == ExtractReturn

SpecTable == InitTable /\ [][NextTable]_vars

Extracted == norm.pc = "returned" /\ norm.fn = "extract_params_from_table"

\* the call took the regex fallback
FellBack == norm.params = <<>>

\* the texts of the cells of a row as the path taken reads them
PathTexts(row) ==
    IF FellBack
    THEN [c \in 1..Len(RegexCells(row)) |-> clean_html(RegexCells(row)[c].html)]
    ELSE [c \in 1..Len(SoupCells(row)) |-> SoupText(SoupCells(row)[c])]

RequestKeys == {"name", "type", "required", "option", "description"}

ResponseKeys == {"name", "type", "description"}

\* C15: on the structural path and on the regex fallback a request record
\* has exactly the keys name, type, required, option, description and a
\* response record exactly name, type, description; the regex fallback is
\* run only when the structural parse gave no record.
C15_SameShapeBothPaths ==
    Extracted =>
        /\ \A n \in 1..Len(norm.ret) :
              /\ norm.ret[n].t = "dict"
              /\ DOMAIN norm.ret[n].v =
                    IF norm.arg.table_type = "request" THEN RequestKeys ELSE ResponseKeys
        /\ ~FellBack => norm.ret = norm.params
        /\ FellBack =>
              norm.ret = extract_params_from_table_regex(norm.arg.table_html,
                                                         norm.arg.table_type)

\* a response table read by the regex fallback that gave a record
C15_Witness ==
    /\ Extracted
    /\ norm.arg.table_type = "response"
    /\ FellBack
    /\ Len(norm.ret) >= 1
    /\ DOMAIN norm.ret[1].v = ResponseKeys

(***************************************************************************)
(* Runs of two indices whose renders always report a failure               *)
(***************************************************************************)
InitAttempt ==
    /\ gen = GenIdle
    /\ genOut = <<>>
    /\ norm = NormIdle
    /\ args = [test |-> FALSE, resume |-> TRUE]
    /\ mpc = "start"
    /\ indices = <<>>
    /\ task = [idx \in {} |-> NewTask]
    /\ semaphore = Permits
    /\ completed = 0
    /\ results = {}
    /\ disk = WriteFile(EmptyDir, ResultsFile, CompletedAllBut(MaxRemaining))
    /\ site \in [ToSet(MainWorkList(args, disk)) -> ToSet(FailingKinds)]
    /\ faults = [write |-> 0, render |-> 0]
    /\ sweeps = <<>>
    /\ past = <<>>

SpecAttempt == InitAttempt /\ [][Next]_vars

\* the failing pages whose message holds one of the keywords 404, not
\* found, empty, timeout, wait condition failed, in whatever case
KeywordKinds == {"says-empty", "says-wait", "says-404", "says-not-found", "says-timeout"}

\* every attempt on a page whose failure message holds a keyword is
\* classified EmptyPage, every attempt on another failing page Failure
KeywordsClassify ==
    \A idx \in DOMAIN task :
        \A n \in 1..Len(task[idx].hist) :
            task[idx].hist[n] =
                IF site[idx] \in KeywordKinds THEN "EmptyPage" ELSE "Failure"

\* C16 (as stated): an unsuccessful render whose message holds a keyword is
\* classified EmptyPage, the empty marker is written and the index is not
\* retried; an unsuccessful render whose message holds none, or that has no
\* message, is classified Failure and the index is retried while attempts
\* are left.
C16_KeywordsDecide ==
    /\ KeywordsClassify
    /\ \A idx \in DOMAIN task :
          IF site[idx] \in KeywordKinds
          THEN /\ Renders(idx) <= 1
               /\ task[idx].hist # <<>> =>
                     /\ EmptyFile(idx) \in DOMAIN disk
                     /\ disk[EmptyFile(idx)] = Json(EmptyMarker(idx))
          ELSE task[idx].pc = "done" => Renders(idx) = 3

(***************************************************************************)
(* The artifacts on disk during a run                                      *)
(***************************************************************************)
\* C17 (as stated): in every state of a run, whatever write has failed,
\* each doc_<index>.json and empty_<index>.json of the output directory
\* holds its complete JSON content; none is truncated or partly written.
C17_ArtifactsComplete ==
    \A f \in DOMAIN disk :
        f.kind \in {"doc", "empty"} => disk[f].kind = "json"

(***************************************************************************)
(* cleanup_empty_files on files that do not parse                          *)
(***************************************************************************)
\* a file that json.load cannot parse: text that is no JSON, or bytes that
\* are no text
Unparsable(c) == c.kind \in {"garbage", "undecodable"}

\* C18 (as stated): a sweep never aborts, whatever the files hold; it leaves
\* no .json file that cannot be parsed as JSON; and the count it returns is
\* the number of files it deleted.
C18_SweepNeverAborts ==
    \A n \in 1..Len(sweeps) :
        /\ ~sweeps[n].raised
        /\ \A f \in DOMAIN sweeps[n].after :
              f.ext = "json" => ~Unparsable(sweeps[n].after[f])
        /\ sweeps[n].count = Cardinality(Removed(sweeps[n]))

(***************************************************************************)
(* The attempts of one index                                               *)
(***************************************************************************)
\* an index is rendered at most three times, and at least once before it
\* is resolved
AttemptsBounded ==
    \A idx \in DOMAIN task :
        /\ Renders(idx) <= MaxAttempts
        /\ task[idx].pc = "done" => Renders(idx) >= 1

\* C19 (as stated): an index is rendered at least once and at most three
\* times in a run, one attempt at a time, and attempt n+1 starts only after
\* attempt n has returned and been classified Failure.
C19_AttemptsSequential ==
    /\ AttemptsBounded
    /\ \A idx \in DOMAIN task :
          \A n \in 1..(Renders(idx) - 1) : task[idx].hist[n] = "Failure"

(***************************************************************************)
(* The progress counter                                                    *)
(***************************************************************************)
\* the indices whose task has left process_index
Resolved == {idx \in DOMAIN task : task[idx].pc = "done"}

\* C20: completed is the number of resolved indices in every state, hence
\* counted once for each index whatever the interleaving of the tasks and
\* whether the index succeeded, was empty or was given up; it lies between
\* 0 and total; and it equals total once the orchestrator has returned.
C20_CompletedCountsResolved ==
    /\ completed = Cardinality(Resolved)
    /\ \A idx \in Resolved : task[idx].state \in TerminalStates
    /\ 0 <= completed /\ completed <= Len(indices)
    /\ mpc \in {"returned", "done", "failed"} => completed = Len(indices)

\* in the middle of a run in which a write raised two indices are counted,
\* one of them given up after its attempts, while another index is being
\* rendered
C20_Witness ==
    /\ mpc = "crawl"
    /\ completed = 2
    /\ faults.write > 0
    /\ \E idx \in Resolved : task[idx].state = "Abandoned"
    /\ \E idx \in Resolved : task[idx].state # "Abandoned"
    /\ \E idx \in DOMAIN task : task[idx].pc = "render"

(***************************************************************************)
(* The title for every combination of levels                               *)
(***************************************************************************)
\* the texts of a list of at most three joined by " > "
JoinedBySep(parts) ==
    CASE Len(parts) = 0 -> <<>>
      [] Len(parts) = 1 -> parts[1]
      [] Len(parts) = 2 -> parts[1] \o TitleSep \o parts[2]
      [] OTHER -> parts[1] \o TitleSep \o parts[2] \o TitleSep \o parts[3]

\* C21 (as stated): for every combination of present and absent levels the
\* title post_process_content composes is the non-empty levels among L1, L2
\* and L3 joined in order by " > ", and the generic title field is used
\* only when no level was recovered.
C21_TitleJoinsLevels ==
    norm.pc = "returned" /\ norm.fn = "post_process_content" =>
        LET present == SelectSeq(SubSeq(norm.levels, 1, 3), LAMBDA l : l # <<>>)
            generic == norm.levels[4]
            title == norm.ret.v[1].v.title.v
        IN IF present # <<>> THEN title = JoinedBySep(present)
           ELSE title = clean_text(generic)

(***************************************************************************)
(* The records of a table, row by row                                      *)
(***************************************************************************)
\* the rows the path taken works on
PathRows ==
    IF FellBack THEN RegexRows(norm.arg.table_html) ELSE SoupRows(norm.arg.table_html)

\* the cells a record of the kind asked for needs: 4 for request, 3 for
\* response
CellsNeeded == IF norm.arg.table_type = "request" THEN 4 ELSE 3

\* C22: extract_params_from_table returns exactly one record for each row
\* that has enough cells (at least 4 for request, at least 3 for response),
\* in the order of the rows, each record holding the texts of the cells of
\* its row; rows with fewer than 3 cells and request rows with exactly 3
\* cells give no record.
C22_OneRecordPerRow ==
    Extracted =>
        LET enough == SelectSeq(PathRows, LAMBDA row : Len(PathTexts(row)) >= CellsNeeded)
        IN /\ Len(norm.ret) = Len(enough)
           /\ \A k \in 1..Len(enough) :
                 LET texts == PathTexts(enough[k])
                     rec == norm.ret[k].v
                 IN /\ rec.name.v = texts[1]
                    /\ rec.type.v = texts[2]
                    /\ rec.description.v = texts[CellsNeeded]
                    /\ norm.arg.table_type = "request" => rec.option.v = texts[3]

\* a request table read by the structural path whose first row has exactly
\* 3 cells and gives no record and whose second row gives the one record
C22_Witness ==
    /\ Extracted
    /\ norm.arg.table_type = "request"
    /\ ~FellBack
    /\ Len(norm.arg.table_html) = 2
    /\ Len(SoupCells(norm.arg.table_html[1])) = 3
    /\ Len(norm.ret) = 1
    /\ norm.ret[1].v.option.v = <<"U53EF", "U9009">>

(***************************************************************************)
(* clean_text and clean_html on the same input                             *)
(***************************************************************************)
MaxPieces == 3         \* pieces an input text is put together from

\* what the inputs are made of: a letter, blanks, a line break, character
\* references, a tag, and the characters of references and tags on their own
TextPieces ==
    {<<>>, <<"a">>, <<" ">>, <<"\n", " ">>, <<"&", "g", "t", ";">>,
     <<"&", "a", "m", "p", ";">>, <<"<", "b", ">">>, <<"<">>, <<">">>, <<"&">>}

RECURSIVE Concat(_)
Concat(pieces) == IF pieces = <<>> THEN <<>> ELSE Head(pieces) \o Concat(Tail(pieces))

TextInputs == {Concat(ps) : ps \in [1..MaxPieces -> TextPieces]}

InitClean ==
    /\ gen = GenIdle
    /\ genOut = <<>>
    /\ norm \in {[pc |-> "called", fn |-> f, arg |-> t] :
                    f \in {"clean_text", "clean_html"}, t \in TextInputs}
    /\ NoRun
    /\ disk = EmptyDir
    /\ sweeps = <<>>
    /\ past = <<>>

CleanTextReturn ==
    /\ norm.pc = "called"
    /\ norm.fn = "clean_text"
    /\ norm' = [pc |-> "returned", fn |-> norm.fn, arg |-> norm.arg,
                ret |-> clean_text(norm.arg)]
    /\ UNCHANGED <<past, genVars, runVars, dirVars>>

CleanHtmlReturn ==
    /\ norm.pc = "called"
    /\ norm.fn = "clean_html"
    /\ norm' = [pc |-> "returned", fn |-> norm.fn, arg |-> norm.arg,
                ret |-> clean_html(norm.arg)]
    /\ UNCHANGED <<past, genVars, runVars, dirVars>>

NextClean == CleanTextReturn \/ CleanHtmlReturn

SpecClean == InitClean /\ [][NextClean]_vars

\* the text holds something the tag pattern '<[^>]+>' matches
HasTagMarkup(text) == SubTags(text, <<>>) # text

\* C23 (as stated): on every input that holds no tag markup clean_html
\* returns what clean_text returns: the text with its character references
\* decoded, its runs of white space collapsed to one blank, and trimmed.
C23_CleanHtmlAsCleanText ==
    norm.pc = "returned" /\ norm.fn = "clean_html" /\ ~HasTagMarkup(norm.arg) =>
        norm.ret = clean_text(norm.arg)

(***************************************************************************)
(* A fault in one field of an extraction                                   *)
(*                                                                         *)
(* Runs over pages that are served in full and pages whose extraction      *)
(* holds no page body and a list in all_tables, in which no write fails    *)
(* and no render meets a fault of its own.                                 *)
(***************************************************************************)
InitField ==
    /\ gen = GenIdle
    /\ genOut = <<>>
    /\ norm = NormIdle
    /\ args = [test |-> FALSE, resume |-> TRUE]
    /\ mpc = "start"
    /\ indices = <<>>
    /\ task = [idx \in {} |-> NewTask]
    /\ semaphore = Permits
    /\ completed = 0
    /\ results = {}
    /\ disk = WriteFile(EmptyDir, ResultsFile, CompletedAllBut(MaxRemaining))
    /\ site \in [ToSet(MainWorkList(args, disk)) -> {"full", "tables-only"}]
    /\ faults = [write |-> MaxWriteFaults, render |-> MaxRenderFaults]
    /\ sweeps = <<>>
    /\ past = <<>>

SpecField == InitField /\ [][Next]_vars

\* C24 (as stated): a fault raised while one field of an extraction is
\* normalized, here while the fallback HTML fields are concatenated, is
\* confined to that field: no attempt on the page is classified Failure,
\* and the index ends with a doc artifact whose other fields, the title
\* and the request parameters, are filled.
C24_FieldFaultConfined ==
    \A idx \in DOMAIN task :
        site[idx] = "tables-only" =>
            /\ \A n \in 1..Len(task[idx].hist) : task[idx].hist[n] # "Failure"
            /\ task[idx].pc = "done" =>
                  /\ DocFile(idx) \in DOMAIN disk
                  /\ HoldsOneRecord(disk[DocFile(idx)])
                  /\ Truthy(Get(disk[DocFile(idx)].val.v[1], "title"))
                  /\ Truthy(Get(disk[DocFile(idx)].val.v[1], "request_params"))

(***************************************************************************)
(* When the sweep runs                                                     *)
(***************************************************************************)
\* main is over: it returned, or the sweep raised
MainOver == mpc \in {"done", "failed"}

\* a sweep has started only with the orchestrator returned, every index of
\* the work list resolved and no render in progress
SweepAfterOrchestrator ==
    sweeps # <<>> =>
        /\ MainOver
        /\ Resolved = DOMAIN task
        /\ Rendering = {}

\* C25 (as stated): whatever the flags, a run that has ended has executed
\* the sweep, and the sweep started only after the orchestrator returned,
\* never while an index was being fetched.
C25_SweepWhateverFlags ==
    /\ SweepAfterOrchestrator
    /\ MainOver => sweeps # <<>>

\* C25 (amended): every run ends; a run without --test has then executed
\* the sweep, once; a run with --test executes no sweep; and a sweep starts
\* only after the orchestrator has returned, with every index resolved and
\* no render in progress.
C25_SweepUnlessTest ==
    /\ [](SweepAfterOrchestrator)
    /\ [](args.test => sweeps = <<>>)
    /\ [](MainOver /\ ~args.test => Len(sweeps) = 1)
    /\ <>MainOver

\* a run without --test over several indices has ended and its sweep
\* removed a file
C25_Witness ==
    /\ MainOver
    /\ ~args.test
    /\ Len(indices) >= 2
    /\ Len(sweeps) = 1
    /\ sweeps[1].count > 0

(***************************************************************************)
(* Runs in succession on one output directory                              *)
(***************************************************************************)
MaxRuns == 2           \* runs of the crawler on one output directory

\* a first run that resumes from a results file which leaves MaxRemaining
\* indices, over pages that are served, are not there, or cannot be
\* rendered; no write fails and no render meets a fault of its own
InitResume ==
    /\ gen = GenIdle
    /\ genOut = <<>>
    /\ norm = NormIdle
    /\ args = [test |-> FALSE, resume |-> TRUE]
    /\ mpc = "start"
    /\ indices = <<>>
    /\ task = [idx \in {} |-> NewTask]
    /\ semaphore = Permits
    /\ completed = 0
    /\ results = {}
    /\ disk = WriteFile(EmptyDir, ResultsFile, CompletedAllBut(MaxRemaining))
    /\ site \in [ToSet(MainWorkList(args, disk)) -> {"full", "missing", "down"}]
    /\ faults = [write |-> MaxWriteFaults, render |-> MaxRenderFaults]
    /\ sweeps = <<>>
    /\ past = <<>>

\* the process has ended and the crawler is started again with --resume on
\* the directory as the run left it: a new process, whose results dict is
\* empty
MainRestart ==
    /\ mpc \in {"done", "failed"}
    /\ Len(past) + 1 < MaxRuns
    /\ past' = Append(past, [succeeded |-> results])
    /\ args' = [test |-> FALSE, resume |-> TRUE]
    /\ mpc' = "start"
    /\ indices' = <<>>
    /\ task' = [idx \in {} |-> NewTask]
    /\ semaphore' = Permits
    /\ completed' = 0
    /\ results' = {}
    /\ UNCHANGED <<site, faults, genVars, normVars, dirVars>>

NextResume == Next \/ MainRestart

SpecResume == InitResume /\ [][NextResume]_vars

\* C26 (as stated): an index that an earlier run on the directory resolved
\* as Succeeded is not rendered by a following run with --resume.
C26_ResumeSkipsSucceeded ==
    \A r \in 1..Len(past) :
        \A idx \in past[r].succeeded :
            args.resume /\ idx \in DOMAIN task => Renders(idx) = 0

(***************************************************************************)
(* The backoff sleep                                                       *)
(***************************************************************************)
\* C27 (as stated): the 10 second backoff is slept only between attempts:
\* an index sleeps it after a failed attempt only when another attempt
\* follows, and after the last allowed attempt goes on to Abandoned
\* without it.
C27_BackoffOnlyBetweenAttempts ==
    \A idx \in DOMAIN task :
        /\ task[idx].pc = "backoff" => task[idx].attempt + 1 < MaxAttempts
        /\ task[idx].pc = "next" => task[idx].attempt + 1 = MaxAttempts

(***************************************************************************)
(* The render request of crawl_doc_page                                    *)
(*                                                                         *)
(* A page is held as what the selectors of the script find in it when the  *)
(* script starts (first) and five seconds later (later): a content marker, *)
(* a table, the request tab, the response tab.  A script is held by name   *)
(* and by what it does to the page.                                        *)
(***************************************************************************)
PageFeatures == {"marker", "table", "reqtab", "resptab"}

ScriptPages == [first : SUBSET PageFeatures, later : SUBSET PageFeatures]

\* the string js_code of lines 72-191 and the string js_set_headers
InteractionScript == "js_code"
HeaderScript == "js_set_headers"

\* the attributes named in wait_for
CompletionTags == {"data-tabs-clicked", "data-page-empty", "data-content-processed"}

\* checkIfPageEmpty: nothing matches '.containerFlex, .el-table, table, ...'
checkIfPageEmpty(found) == found \cap {"marker", "table"} = {}

\* the attributes the script has set on body when it has run on the page:
\* main of js_code tags the page empty at its first or at its second check,
\* else waits for the two tabs and tags the page tabs-clicked, or
\* content-processed when waiting for a tab is rejected; js_set_headers
\* defines navigator.userAgent and sets no attribute
RunScript(script, page) ==
    IF script = HeaderScript THEN {}
    ELSE IF checkIfPageEmpty(page.first) THEN {"data-page-empty"}
    ELSE IF checkIfPageEmpty(page.later) THEN {"data-page-empty"}
    ELSE IF {"reqtab", "resptab"} \subseteq page.later THEN {"data-tabs-clicked"}
    ELSE {"data-content-processed"}

InitScript ==
    /\ gen = GenIdle
    /\ genOut = <<>>
    /\ norm \in {[pc |-> "called", fn |-> "crawl_doc_page", page |-> p] : p \in ScriptPages}
    /\ NoRun
    /\ disk = EmptyDir
    /\ sweeps = <<>>
    /\ past = <<>>

\* config = CrawlerRunConfig(..., js_code=js_code)
ConfigBuilt ==
    /\ norm.pc = "called"
    /\ norm.fn = "crawl_doc_page"
    /\ norm' = [pc |-> "configured", fn |-> norm.fn, page |-> norm.page,
                config |-> [js_code |-> InteractionScript, wait_for |-> CompletionTags]]
    /\ UNCHANGED <<past, genVars, runVars, dirVars>>

\* config.js_code = js_set_headers
HeadersAssigned ==
    /\ norm.pc = "configured"
    /\ norm' = [norm EXCEPT !.pc = "assigned", !.config.js_code = HeaderScript]
    /\ UNCHANGED <<past, genVars, runVars, dirVars>>

\* crawler.arun(url=url, config=config): the renderer runs the script of
\* the configuration in the page
ArunSubmitted ==
    /\ norm.pc = "assigned"
    /\ norm' = [pc |-> "submitted", fn |-> norm.fn, page |-> norm.page,
                config |-> norm.config,
                tags |-> RunScript(norm.config.js_code, norm.page)]
    /\ UNCHANGED <<past, genVars, runVars, dirVars>>

NextScript == ConfigBuilt \/ HeadersAssigned \/ ArunSubmitted

SpecScript == InitScript /\ [][NextScript]_vars

\* C28 (as stated): the script submitted with a render request is the
\* interaction sequence, so that on every page one of the completion tags
\* the render waits for is set: the empty tag when no content marker
\* appears, else the tabs tag or the content tag.
C28_InteractionScriptSubmitted ==
    norm.pc = "submitted" =>
        /\ norm.config.js_code = InteractionScript
        /\ norm.tags \cap norm.config.wait_for # {}
        /\ checkIfPageEmpty(norm.page.first) => norm.tags = {"data-page-empty"}

(***************************************************************************)
(* The artifacts of one index                                              *)
(***************************************************************************)
\* C29 (as stated): while a run crawls and until its sweep, an index has a
\* doc artifact exactly when it is Succeeded, an empty marker exactly when
\* it is EmptyConfirmed, hence nothing when it is Abandoned or not yet
\* resolved, and never both; no artifact is written for an index before
\* the write that resolves it, so none is written twice or overwritten.
C29_OneArtifactPerIndex ==
    mpc \in {"crawl", "returned"} =>
        \A idx \in DOMAIN task :
            /\ DocFile(idx) \in DOMAIN disk <=> task[idx].state = "Succeeded"
            /\ EmptyFile(idx) \in DOMAIN disk <=> task[idx].state = "EmptyConfirmed"
            /\ ~(DocFile(idx) \in DOMAIN disk /\ EmptyFile(idx) \in DOMAIN disk)

(***************************************************************************)
(* The permit of an index                                                  *)
(***************************************************************************)
\* the step admits the index: it leaves the queue of the gate
Admitted(idx) == task[idx].pc = "queued" /\ task'[idx].pc # "queued"

\* the step resolves the index
Resolves(idx) == task[idx].pc # "done" /\ task'[idx].pc = "done"

\* C30: in every step of a run an index that is admitted takes one permit,
\* and only while fewer than 3 indices are inside the gate, an index in its
\* jitter sleep, its render or its backoff sleep counting as inside; an
\* index that was admitted is never admitted again; and a permit comes
\* back only in a step that resolves an index.
C30_PermitHeldThroughLoop ==
    [][mpc = "crawl" /\ mpc' = "crawl" =>
          /\ \A idx \in DOMAIN task :
                /\ Admitted(idx) =>
                      /\ Cardinality(Inside) < Permits
                      /\ semaphore' = semaphore - 1
                /\ task[idx].pc # "queued" => task'[idx].pc # "queued"
                /\ InGate(task[idx]) /\ ~Resolves(idx) => InGate(task'[idx])
          /\ semaphore' > semaphore => \E idx \in DOMAIN task : Resolves(idx)]_vars

\* three indices hold the permits, one of them asleep in its backoff and
\* one in its jitter sleep, while another index waits at the gate
C30_Witness ==
    /\ mpc = "crawl"
    /\ semaphore = 0
    /\ Cardinality(Inside) = Permits
    /\ \E idx \in Inside : task[idx].pc = "backoff"
    /\ \E idx \in Inside : task[idx].pc = "jitter"
    /\ \E idx \in DOMAIN task : task[idx].pc = "queued"

=============================================================================
